---- MODULE Spec2Model ----
(***************************************************************************)
(* Model of little-coffee/remote-jobs, src/src/main.rs: a bulk URL checker. *)
(* Strings are sequences of one-character strings, so that the two regular *)
(* expressions of the normaliser act on characters as the regex crate does. *)
(***************************************************************************)
EXTENDS Integers, Sequences, FiniteSets, TLC

VARIABLES
    arg,          \* pure-function harness: the &str handed to the function
    fpc,          \* pure-function harness: which calls have been made
    out,          \* sanitize_url(arg)
    out2,         \* sanitize_url(out)
    variations,   \* build_url_variations(arg)
    contents,     \* job-links.txt as split('\n') sees it: a sequence of lines
    mainpc,       \* position of main: "off", "read", "run", "report", "print", "done", "io_error"
    urls,         \* the Vec<String> of trimmed, non-empty, unique lines
    next,         \* position of stream::iter(urls): index of the next URL to spawn
    tasks,        \* the spawned check_url tasks, in spawn order
    in_progress,  \* buffer_unordered's queue: spawned tasks not yet yielded to fold
    valid_urls,   \* UrlSets.valid_urls
    invalid_urls, \* UrlSets.invalid_urls
    env,          \* the environment: the hosts that misbehave, and how often they still may
    output_file,  \* the bytes of output.txt
    stdout        \* the bytes the closing println! has put on standard output

vars == <<arg, fpc, out, out2, variations, contents, mainpc, urls, next, tasks,
          in_progress, valid_urls, invalid_urls, env, output_file, stdout>>

fvars == <<arg, fpc, out, out2, variations>>
rvars == <<output_file, stdout>>
pvars == <<contents, mainpc, urls, next, tasks, in_progress, valid_urls,
           invalid_urls, env, rvars>>

-----------------------------------------------------------------------------
(* Bounds of the model *)

MaxPieces == 3
MaxLines == 3
NetLines == 2
MaxHops == 2
Extra == 1
LightFaults == 1
FullFaults == 7
SchedFaults == 1
LiveFaults == 3
ProbePieces == 2
ProbeFaults == 5

(* Program constant *)
PARALLEL_REQUESTS == 10

-----------------------------------------------------------------------------
(* String literals of the program *)

SchemeHttp == <<"h", "t", "t", "p", ":", "/", "/">>
SchemeHttps == <<"h", "t", "t", "p", "s", ":", "/", "/">>
Www == <<"w", "w", "w", ".">>

IsPrefix(p, s) == Len(p) <= Len(s) /\ SubSeq(s, 1, Len(p)) = p
Drop(s, n) == SubSeq(s, n + 1, Len(s))

\* Regex::new(r"^(https?)://").replace(url, ""): the match is anchored at the
\* start of the text and is case-sensitive.
remove_url_protocol(url) ==
    IF IsPrefix(SchemeHttp, url) THEN Drop(url, Len(SchemeHttp))
    ELSE IF IsPrefix(SchemeHttps, url) THEN Drop(url, Len(SchemeHttps))
    ELSE url

\* The regex search for r"(www\.)": the start of the leftmost match at or after
\* position i, 0 when there is none.
RECURSIVE FindWww(_, _)
FindWww(s, i) ==
    IF i + Len(Www) - 1 > Len(s) THEN 0
    ELSE IF SubSeq(s, i, i + Len(Www) - 1) = Www THEN i
    ELSE FindWww(s, i + 1)

\* remove_www with Regex::replace_all: every non-overlapping match, scanning
\* left to right.
RECURSIVE remove_www_all(_)
remove_www_all(url) ==
    LET i == FindWww(url, 1)
    IN  IF i = 0 THEN url
        ELSE SubSeq(url, 1, i - 1) \o remove_www_all(Drop(url, i + Len(Www) - 1))

\* Regex::new(r"(www\.)").replace(url, ""): Regex::replace replaces the leftmost
\* match only.
remove_www(url) ==
    LET i == FindWww(url, 1)
    IN  IF i = 0 THEN url
        ELSE SubSeq(url, 1, i - 1) \o Drop(url, i + Len(Www) - 1)

sanitize_url(url) == remove_www(remove_url_protocol(url))

Contains(seq, x) == \E k \in 1..Len(seq) : seq[k] = x

\* build_url_variations with the first two entries in the other order.
build_url_variations_swapped(url) ==
    LET partial_url == sanitize_url(url)
        four == << SchemeHttps \o Www \o partial_url,
                   SchemeHttps \o partial_url,
                   SchemeHttp \o partial_url,
                   SchemeHttp \o Www \o partial_url >>
    IN  IF ~Contains(four, url) THEN Append(four, url) ELSE four

\* build_url_variations without the raw URL.
build_url_variations_four(url) ==
    LET partial_url == sanitize_url(url)
    IN  << SchemeHttps \o partial_url,
           SchemeHttps \o Www \o partial_url,
           SchemeHttp \o partial_url,
           SchemeHttp \o Www \o partial_url >>

build_url_variations(url) ==
    LET partial_url == sanitize_url(url)
        four == << SchemeHttps \o partial_url,
                   SchemeHttps \o Www \o partial_url,
                   SchemeHttp \o partial_url,
                   SchemeHttp \o Www \o partial_url >>
    IN  IF ~Contains(four, url) THEN Append(four, url) ELSE four

-----------------------------------------------------------------------------
(* The pure functions, applied to every input built of at most MaxPieces    *)
(* pieces.                                                                   *)

Pieces ==
    { SchemeHttp, SchemeHttps, Www, <<"w", "w", "w">>, <<".">>, <<"a">>,
      <<"H", "T", "T", "P", ":", "/", "/">>, <<"/">> }

RECURSIVE Concats(_)
Concats(n) ==
    IF n = 0 THEN { <<>> }
    ELSE LET shorter == Concats(n - 1)
         IN  shorter \cup { s \o p : s \in shorter, p \in Pieces }

PipelineOff ==
    /\ contents = <<>>
    /\ mainpc = "off"
    /\ urls = <<>>
    /\ next = 1
    /\ tasks = <<>>
    /\ in_progress = {}
    /\ valid_urls = {}
    /\ invalid_urls = {}
    /\ env = [faults |-> 0, flaky |-> {}]
    /\ output_file = <<>>
    /\ stdout = <<>>

InitSanitize ==
    /\ arg \in Concats(MaxPieces)
    /\ fpc = "start"
    /\ out = <<>>
    /\ out2 = <<>>
    /\ variations = <<>>
    /\ PipelineOff

CallSanitize ==
    /\ fpc = "start"
    /\ out' = sanitize_url(arg)
    /\ fpc' = "sanitized"
    /\ UNCHANGED <<arg, out2, variations, pvars>>

CallSanitizeAgain ==
    /\ fpc = "sanitized"
    /\ out2' = sanitize_url(out)
    /\ fpc' = "resanitized"
    /\ UNCHANGED <<arg, out, variations, pvars>>

CallBuildVariations ==
    /\ fpc = "resanitized"
    /\ variations' = build_url_variations(arg)
    /\ fpc' = "built"
    /\ UNCHANGED <<arg, out, out2, pvars>>

NextSanitize == CallSanitize \/ CallSanitizeAgain \/ CallBuildVariations

SpecSanitize == InitSanitize /\ [][NextSanitize]_vars

-----------------------------------------------------------------------------
(* main: reading the list                                                    *)

IsSpace(c) == c \in {" ", "\t"}

RECURSIVE trim_start(_)
trim_start(s) ==
    IF s # <<>> /\ IsSpace(Head(s)) THEN trim_start(Tail(s)) ELSE s

RECURSIVE trim_end(_)
trim_end(s) ==
    IF s # <<>> /\ IsSpace(s[Len(s)]) THEN trim_end(SubSeq(s, 1, Len(s) - 1)) ELSE s

\* str::trim
trim(s) == trim_end(trim_start(s))

\* collect_lines without .unique()
RECURSIVE collect_lines_dup(_, _)
collect_lines_dup(lines, acc) ==
    IF lines = <<>> THEN acc
    ELSE LET trimmed == trim(Head(lines))
         IN  collect_lines_dup(Tail(lines),
                 IF trimmed = <<>> THEN acc ELSE Append(acc, trimmed))

\* .filter_map(trim, drop the empty).unique().collect(): unique keeps the first
\* occurrence of each value, in order.
RECURSIVE collect_lines(_, _)
collect_lines(lines, acc) ==
    IF lines = <<>> THEN acc
    ELSE LET trimmed == trim(Head(lines))
         IN  collect_lines(Tail(lines),
                 IF trimmed = <<>> \/ Contains(acc, trimmed) THEN acc
                 ELSE Append(acc, trimmed))

-----------------------------------------------------------------------------
(* One spawned task: check_url(url), suspended in hit_url's send().await     *)

NoRes == [is_valid |-> FALSE, url |-> <<>>]

\* Mutex::lock on the task's final_url. The mutex is not reentrant: a lock() made
\* while the task still holds a guard does not return. acq counts the lock()
\* calls that returned in the current hit_url.
lock(t) ==
    IF t.held THEN [t EXCEPT !.st = "deadlock"]
    ELSE [t EXCEPT !.held = TRUE, !.acq = t.acq + 1]

\* The MutexGuard temporary is dropped at the end of its statement.
drop_guard(t) == [t EXCEPT !.held = FALSE]

\* The task as tokio::spawn starts it: check_url builds the variations and calls
\* hit_url on the first, which creates final_url holding the candidate.
NewTask(url) ==
    LET vs == build_url_variations(url)
    IN  [url |-> url, st |-> "send", vi |-> 1, final_url |-> vs[1], cb |-> <<>>,
         hops |-> <<>>, log |-> <<vs[1]>>, outs |-> <<>>, res |-> NoRes,
         held |-> FALSE, acq |-> 0]

\* AfterErr, stepping over a variation.
AfterErrSkip(t) ==
    LET vs == build_url_variations(t.url)
    IN  IF t.vi + 1 < Len(vs)
        THEN [t EXCEPT !.vi = t.vi + 2, !.final_url = vs[t.vi + 2], !.hops = <<>>,
                       !.held = FALSE, !.acq = 0,
                       !.log = Append(t.log, vs[t.vi + 2]),
                       !.outs = Append(t.outs, "err")]
        ELSE [t EXCEPT !.st = "done", !.final_url = <<>>,
                       !.outs = Append(t.outs, "err"),
                       !.res = [is_valid |-> FALSE, url |-> t.url]]

\* AfterErr, giving up before the last variation.
AfterErrEarly(t) ==
    LET vs == build_url_variations(t.url)
    IN  IF t.vi + 1 < Len(vs)
        THEN [t EXCEPT !.vi = t.vi + 1, !.final_url = vs[t.vi + 1], !.hops = <<>>,
                       !.held = FALSE, !.acq = 0,
                       !.log = Append(t.log, vs[t.vi + 1]),
                       !.outs = Append(t.outs, "err")]
        ELSE [t EXCEPT !.st = "done", !.final_url = <<>>,
                       !.outs = Append(t.outs, "err"),
                       !.res = [is_valid |-> FALSE, url |-> t.url]]

\* hit_url returned Err: the for loop goes on to the next variation, or the loop
\* ends and check_url returns is_valid: false with the url it was given.
AfterErr(t) ==
    LET vs == build_url_variations(t.url)
    IN  IF t.vi < Len(vs)
        THEN [t EXCEPT !.vi = t.vi + 1, !.final_url = vs[t.vi + 1], !.hops = <<>>,
                       !.held = FALSE, !.acq = 0,
                       !.log = Append(t.log, vs[t.vi + 1]),
                       !.outs = Append(t.outs, "err")]
        ELSE [t EXCEPT !.st = "done", !.final_url = <<>>,
                       !.outs = Append(t.outs, "err"),
                       !.res = [is_valid |-> FALSE, url |-> t.url]]

\* send() returned Ok: hit_url locks final_url, copies the value (line 69) and
\* returns it; check_url returns is_valid: true with it.
AfterOk(t) ==
    LET g == lock(t)
    IN  IF g.st = "deadlock" THEN g
        ELSE drop_guard([g EXCEPT !.st = "done", !.final_url = <<>>,
                                  !.outs = Append(t.outs, "ok"),
                                  !.res = [is_valid |-> TRUE, url |-> g.final_url]])

\* CallbackLog with the guard bound to a local of the closure, so that it lives
\* until the closure returns.
CallbackLogHolding(t, new_url) ==
    LET g == lock(t)
    IN  IF g.st = "deadlock" THEN g
        ELSE [g EXCEPT !.cb = new_url, !.hops = Append(t.hops, new_url)]

\* The redirect closure, first statement: new_url = attempt.url(); the println
\* locks final_url, reads it and releases it at the end of the statement.
\* hops records the redirect targets the request has been given, in order.
CallbackLog(t, new_url) ==
    LET g == lock(t)
    IN  IF g.st = "deadlock" THEN g
        ELSE drop_guard([g EXCEPT !.cb = new_url, !.hops = Append(t.hops, new_url)])

\* CallbackSet, keeping the first redirect target.
CallbackSetFirst(t) ==
    LET g == lock(t)
    IN  IF g.st = "deadlock" THEN g
        ELSE drop_guard([g EXCEPT !.final_url = IF Len(t.hops) = 1 THEN t.cb
                                                ELSE t.final_url,
                                  !.cb = <<>>])

\* The redirect closure, second statement: *final_url.lock().unwrap() = new_url,
\* then attempt.follow().
CallbackSet(t) ==
    LET g == lock(t)
    IN  IF g.st = "deadlock" THEN g
        ELSE drop_guard([g EXCEPT !.final_url = t.cb, !.cb = <<>>])

\* Dropped, for a task that is thrown away and whose handle never yields.
DroppedSilently(t) ==
    [t EXCEPT !.st = "cancelled", !.final_url = <<>>, !.cb = <<>>, !.hops = <<>>,
              !.log = <<>>, !.outs = <<>>, !.held = FALSE, !.acq = 0]

\* A task that panicked: its future and everything it held are dropped.
Dropped(t) ==
    [t EXCEPT !.st = "panicked", !.final_url = <<>>, !.cb = <<>>, !.hops = <<>>,
              !.log = <<>>, !.outs = <<>>, !.held = FALSE, !.acq = 0]

\* A task whose JoinHandle has yielded: Ok(CheckedUrl) of a task that returned,
\* Err(JoinError) of one that panicked. Only the outcome is remembered.
Joined(t) ==
    [t EXCEPT !.st = IF t.st = "done" THEN "taken" ELSE "join_error",
              !.final_url = <<>>, !.cb = <<>>, !.hops = <<>>, !.log = <<>>,
              !.outs = <<>>, !.held = FALSE, !.acq = 0]

\* The URLs a server may redirect to.
Targets ==
    { SchemeHttps \o <<"a", "/">>, SchemeHttps \o <<"b", "/">> }

-----------------------------------------------------------------------------
(* main: rendering the report, lines 156-170                                 *)

\* The characters of the model in the order of their bytes: String's Ord compares
\* byte by byte.
Bytes ==
    << "\t", "\n", " ", ".", "/", ":", "H", "P", "T", "a", "b", "c", "d", "e",
       "f", "g", "h", "i", "j", "k", "l", "m", "n", "o", "p", "q", "r", "s", "t",
       "u", "v", "w", "x", "y", "z" >>

byte(c) == CHOOSE k \in 1..Len(Bytes) : Bytes[k] = c

\* <String as Ord>::lt: lexicographic on the bytes, a proper prefix first.
RECURSIVE lt(_, _)
lt(a, b) ==
    IF b = <<>> THEN FALSE
    ELSE IF a = <<>> THEN TRUE
    ELSE IF Head(a) = Head(b) THEN lt(Tail(a), Tail(b))
    ELSE byte(Head(a)) < byte(Head(b))

\* One step of the (stable) sort: x goes after the entries not greater than it.
RECURSIVE insert_sorted(_, _)
insert_sorted(x, seq) ==
    IF seq = <<>> THEN <<x>>
    ELSE IF lt(x, Head(seq)) THEN <<x>> \o seq
    ELSE <<Head(seq)>> \o insert_sorted(x, Tail(seq))

\* sorted(), leaving the iterator as it came.
unsorted(seq) == seq

\* Itertools::sorted
RECURSIVE sorted(_)
sorted(seq) ==
    IF seq = <<>> THEN <<>>
    ELSE insert_sorted(seq[Len(seq)], sorted(SubSeq(seq, 1, Len(seq) - 1)))

\* Itertools::dedup: of consecutive equal items only the first is kept.
RECURSIVE dedup(_)
dedup(seq) ==
    IF Len(seq) < 2 THEN seq
    ELSE IF seq[1] = seq[2] THEN dedup(Tail(seq))
    ELSE <<seq[1]>> \o dedup(Tail(seq))

\* Itertools::join(sep)
RECURSIVE join(_, _)
join(seq, sep) ==
    IF seq = <<>> THEN <<>>
    ELSE IF Len(seq) = 1 THEN seq[1]
    ELSE seq[1] \o sep \o join(Tail(seq), sep)

Newline == <<"\n">>
ValidHeader == <<"v", "a", "l", "i", "d", " ", "u", "r", "l", "s", ":", "\n">>
InvalidHeader ==
    <<"\n", "\n", "i", "n", "v", "a", "l", "i", "d", " ", "u", "r", "l", "s", ":", "\n">>

\* "valid urls:\n{}\n\ninvalid urls:\n{}" filled with the two joined sections;
\* valid_iter and invalid_iter are the items as the HashSets' iterators yield them.
report(valid_iter, invalid_iter) ==
    ValidHeader \o join(dedup(sorted(valid_iter)), Newline)
                \o InvalidHeader \o join(dedup(sorted(invalid_iter)), Newline)

\* HashSet::iter: every item once, in an order the hasher's random keys decide.
RECURSIVE iter(_)
iter(set) ==
    IF set = {} THEN { <<>> }
    ELSE UNION { { <<x>> \o rest : rest \in iter(set \ {x}) } : x \in set }

-----------------------------------------------------------------------------
(* Actions                                                                    *)

Idle == arg = <<>> /\ fpc = "off" /\ out = <<>> /\ out2 = <<>> /\ variations = <<>>

\* main, lines 97-112
Parse ==
    /\ mainpc = "read"
    /\ urls' = collect_lines(contents, <<>>)
    /\ mainpc' = "run"
    /\ UNCHANGED <<fvars, rvars, contents, next, tasks, in_progress, valid_urls,
                   invalid_urls, env>>

\* File::open(..)? or read_to_string(..)? fails: main returns the error.
ReadError ==
    /\ mainpc = "read"
    /\ mainpc' = "io_error"
    /\ UNCHANGED <<fvars, rvars, contents, urls, next, tasks, in_progress, valid_urls,
                   invalid_urls, env>>

\* CanSpawn with <= for <.
CanSpawnOffByOne ==
    /\ Cardinality(in_progress) <= PARALLEL_REQUESTS
    /\ next <= Len(urls)

\* CanSpawn for batches: after every PARALLEL_REQUESTS-th task the stream waits
\* until the queue is empty.
CanSpawnBatched ==
    /\ Cardinality(in_progress) < PARALLEL_REQUESTS
    /\ next <= Len(urls)
    /\ in_progress = {} \/ (next - 1) % PARALLEL_REQUESTS # 0

\* BufferUnordered::poll_next: while in_progress_queue.len() < max, pull the next
\* future from the mapped stream.
CanSpawn ==
    /\ Cardinality(in_progress) < PARALLEL_REQUESTS
    /\ next <= Len(urls)

\* The mapped stream yields tokio::spawn(check_url(url)) and the queue takes it.
Dispatch ==
    /\ mainpc = "run"
    /\ CanSpawn
    /\ tasks' = Append(tasks, NewTask(urls[next]))
    /\ in_progress' = in_progress \cup {next}
    /\ next' = next + 1
    /\ UNCHANGED <<fvars, rvars, contents, mainpc, urls, valid_urls, invalid_urls, env>>

\* The request of task i fails: connection error, timeout, malformed URL.
ProbeFail(i) ==
    /\ tasks[i].st = "send"
    /\ tasks[i].cb = <<>>
    /\ env.faults > 0
    /\ tasks[i].url \in env.flaky
    /\ tasks' = [tasks EXCEPT ![i] = AfterErr(tasks[i])]
    /\ env' = [env EXCEPT !.faults = env.faults - 1]
    /\ UNCHANGED <<fvars, rvars, contents, mainpc, urls, next, in_progress, valid_urls,
                   invalid_urls>>

\* The server answers task i's request with a redirect to target.
RedirectLog(i, target) ==
    /\ tasks[i].st = "send"
    /\ tasks[i].cb = <<>>
    /\ Len(tasks[i].hops) < MaxHops
    /\ env.faults > 0
    /\ tasks[i].url \in env.flaky
    /\ tasks' = [tasks EXCEPT ![i] = CallbackLog(tasks[i], target)]
    /\ env' = [env EXCEPT !.faults = env.faults - 1]
    /\ UNCHANGED <<fvars, rvars, contents, mainpc, urls, next, in_progress, valid_urls,
                   invalid_urls>>

\* RedirectSet with one final_url shared by all the requests under way.
RedirectSetShared(i) ==
    /\ tasks[i].st = "send"
    /\ tasks[i].cb # <<>>
    /\ tasks' = [k \in DOMAIN tasks |->
                    IF k = i THEN CallbackSet(tasks[i])
                    ELSE IF tasks[k].st = "send"
                         THEN [tasks[k] EXCEPT !.final_url = tasks[i].cb]
                         ELSE tasks[k]]
    /\ UNCHANGED <<fvars, rvars, contents, mainpc, urls, next, in_progress, valid_urls,
                   invalid_urls, env>>

\* The closure of task i's request runs its second statement.
RedirectSet(i) ==
    /\ tasks[i].st = "send"
    /\ tasks[i].cb # <<>>
    /\ tasks' = [tasks EXCEPT ![i] = CallbackSet(tasks[i])]
    /\ UNCHANGED <<fvars, rvars, contents, mainpc, urls, next, in_progress, valid_urls,
                   invalid_urls, env>>

\* A response arrives for task i's request (any status code).
Respond(i) ==
    /\ tasks[i].st = "send"
    /\ tasks[i].cb = <<>>
    /\ tasks' = [tasks EXCEPT ![i] = AfterOk(tasks[i])]
    /\ UNCHANGED <<fvars, rvars, contents, mainpc, urls, next, in_progress, valid_urls,
                   invalid_urls, env>>

\* Task i panics (println! on a closed stdout): its JoinHandle will yield
\* Err(JoinError).
Panic(i) ==
    /\ tasks[i].st = "send"
    /\ env.faults > 0
    /\ tasks[i].url \in env.flaky
    /\ tasks' = [tasks EXCEPT ![i] = Dropped(tasks[i])]
    /\ env' = [env EXCEPT !.faults = env.faults - 1]
    /\ UNCHANGED <<fvars, rvars, contents, mainpc, urls, next, in_progress, valid_urls,
                   invalid_urls>>

\* InsertValid, recording the raw URL next to the resolved address.
InsertValidAlsoRaw(result, set) ==
    IF result.st = "done" /\ result.res.is_valid
    THEN set \cup {result.res.url, result.url} ELSE set

\* InsertValid, keeping only the first valid result that arrives.
InsertValidFirst(result, set) ==
    IF result.st = "done" /\ result.res.is_valid /\ set = {}
    THEN {result.res.url} ELSE set

\* The fold closure, lines 135-152: the Ok(checked) arm with checked.is_valid.
InsertValid(result, set) ==
    IF result.st = "done" /\ result.res.is_valid THEN set \cup {result.res.url} ELSE set

\* InsertInvalid, counting a task that ended abnormally as invalid.
InsertInvalidOrLost(result, set) ==
    IF result.st = "panicked" \/ ~result.res.is_valid
    THEN set \cup {result.url} ELSE set

\* The Ok(checked) arm with !checked.is_valid; the Err arm only prints.

InsertInvalid(result, set) ==
    IF result.st = "done" /\ ~result.res.is_valid THEN set \cup {result.res.url} ELSE set

\* buffer_unordered yields the output of a finished task (in any order) and fold
\* runs its closure on it.
Deliver(i) ==
    /\ mainpc = "run"
    /\ ~CanSpawn
    /\ i \in in_progress
    /\ tasks[i].st \in {"done", "panicked"}
    /\ in_progress' = in_progress \ {i}
    /\ valid_urls' = InsertValid(tasks[i], valid_urls)
    /\ invalid_urls' = InsertInvalid(tasks[i], invalid_urls)
    /\ tasks' = [tasks EXCEPT ![i] = Joined(tasks[i])]
    /\ UNCHANGED <<fvars, rvars, contents, mainpc, urls, next, env>>

\* Finish, with a fold that also stops at the first task that ended abnormally.
FinishAborting ==
    /\ mainpc = "run"
    /\ \/ next > Len(urls) /\ in_progress = {}
       \/ \E i \in in_progress : tasks[i].st = "panicked"
    /\ mainpc' = "report"
    /\ UNCHANGED <<fvars, rvars, contents, urls, next, tasks, in_progress, valid_urls,
                   invalid_urls, env>>

\* The stream is exhausted and the queue is empty: fold returns the two sets.
Finish ==
    /\ mainpc = "run"
    /\ next > Len(urls)
    /\ in_progress = {}
    /\ mainpc' = "report"
    /\ UNCHANGED <<fvars, rvars, contents, urls, next, tasks, in_progress, valid_urls,
                   invalid_urls, env>>

\* File::create("output.txt")? and write_all(format!(..).as_bytes())?, both Ok.
WriteReport ==
    /\ mainpc = "report"
    /\ \E valid_iter \in iter(valid_urls) : \E invalid_iter \in iter(invalid_urls) :
           output_file' = report(valid_iter, invalid_iter)
    /\ mainpc' = "print"
    /\ UNCHANGED <<fvars, stdout, contents, urls, next, tasks, in_progress,
                   valid_urls, invalid_urls, env>>

\* File::create(..)? fails: main returns the error, nothing is written or printed.
WriteError ==
    /\ mainpc = "report"
    /\ mainpc' = "io_error"
    /\ UNCHANGED <<fvars, rvars, contents, urls, next, tasks, in_progress, valid_urls,
                   invalid_urls, env>>

\* println!(..) of the same format string and arguments, evaluated again: println!
\* writes the formatted text and a newline. Then main returns Ok(()).
PrintReport ==
    /\ mainpc = "print"
    /\ \E valid_iter \in iter(valid_urls) : \E invalid_iter \in iter(invalid_urls) :
           stdout' = report(valid_iter, invalid_iter) \o Newline
    /\ mainpc' = "done"
    /\ UNCHANGED <<fvars, output_file, contents, urls, next, tasks, in_progress,
                   valid_urls, invalid_urls, env>>

TaskIds == 1..Len(tasks)

Next ==
    \/ Parse
    \/ ReadError
    \/ Dispatch
    \/ \E i \in TaskIds : ProbeFail(i)
    \/ \E i \in TaskIds : \E target \in Targets : RedirectLog(i, target)
    \/ \E i \in TaskIds : RedirectSet(i)
    \/ \E i \in TaskIds : Respond(i)
    \/ \E i \in TaskIds : Panic(i)
    \/ \E i \in TaskIds : Deliver(i)
    \/ Finish
    \/ WriteReport
    \/ WriteError
    \/ PrintReport

\* The environment: requests for the URLs in flaky may fail or be redirected, and
\* their tasks may panic, at most faults times in all.
Env(faults, flaky) == [faults |-> faults, flaky |-> flaky]

Range(seq) == { seq[k] : k \in 1..Len(seq) }

InitMain(lines, faults, flaky) ==
    /\ Idle
    /\ contents = lines
    /\ mainpc = "read"
    /\ urls = <<>>
    /\ next = 1
    /\ tasks = <<>>
    /\ in_progress = {}
    /\ valid_urls = {}
    /\ invalid_urls = {}
    /\ env = Env(faults, flaky)
    /\ output_file = <<>>
    /\ stdout = <<>>


RECURSIVE SeqsUpTo(_, _)
SeqsUpTo(S, n) ==
    IF n = 0 THEN { <<>> }
    ELSE LET shorter == SeqsUpTo(S, n - 1)
         IN  shorter \cup { Append(s, x) : s \in shorter, x \in S }

\* Lines of an input file: blank, whitespace-only, padded, and two URLs.
IngestLines ==
    { <<>>, <<" ", "\t">>, <<"a">>, <<" ", "a", "\t">>, SchemeHttps \o <<"a">> }

\* Any file of at most MaxLines lines, on a network that misbehaves a little.
Init ==
    \E lines \in SeqsUpTo(IngestLines, MaxLines) :
        InitMain(lines, LightFaults, { trim(l) : l \in Range(lines) })

Spec == Init /\ [][Next]_vars

\* Files of at most NetLines URLs, on a network that may do anything.
NetUrls == { <<"a", "/">>, SchemeHttps \o <<"a", "/">> }

InitNet ==
    \E lines \in SeqsUpTo(NetUrls, NetLines) : InitMain(lines, FullFaults, NetUrls)

SpecNet == InitNet /\ [][Next]_vars

\* A file of more distinct URLs than PARALLEL_REQUESTS.
Hosts == <<"a", "b", "c", "d", "e", "f", "g", "h", "i", "j", "k", "l", "m", "n">>

SchedLines == [k \in 1..(PARALLEL_REQUESTS + Extra) |-> <<Hosts[k]>>]

\* Every host answers every request at once; the task of the first URL may panic.
InitSched == InitMain(SchedLines, SchedFaults, { SchedLines[1] })

NextSched ==
    \/ Parse
    \/ Dispatch
    \/ \E i \in TaskIds : Respond(i)
    \/ \E i \in TaskIds : Panic(i)
    \/ \E i \in TaskIds : Deliver(i)
    \/ Finish

SpecSched == InitSched /\ [][NextSched]_vars

\* A file of one line, any non-empty string built of at most ProbePieces pieces,
\* on a network that may fail every request of the task.
InitProbe ==
    \E url \in Concats(ProbePieces) \ { <<>> } :
        InitMain(<<url>>, ProbeFaults, {url})

SpecProbe == InitProbe /\ [][Next]_vars

\* The run when the files can be read and written, every request is answered,
\* fails or times out (line 64), and the runtime goes on polling what is ready.
InitLive ==
    \E lines \in SeqsUpTo(NetUrls, NetLines) : InitMain(lines, LiveFaults, NetUrls)

NextLive ==
    \/ Parse
    \/ Dispatch
    \/ \E i \in TaskIds : ProbeFail(i)
    \/ \E i \in TaskIds : \E target \in Targets : RedirectLog(i, target)
    \/ \E i \in TaskIds : RedirectSet(i)
    \/ \E i \in TaskIds : Respond(i)
    \/ \E i \in TaskIds : Panic(i)
    \/ \E i \in TaskIds : Deliver(i)
    \/ Finish
    \/ WriteReport
    \/ PrintReport

FairLive ==
    /\ WF_vars(Parse)
    /\ WF_vars(Dispatch)
    /\ WF_vars(\E i \in TaskIds : Deliver(i))
    /\ WF_vars(Finish)
    /\ WF_vars(WriteReport)
    /\ WF_vars(PrintReport)
    /\ \A i \in 1..NetLines : WF_vars(i \in TaskIds /\ RedirectSet(i))
    /\ \A i \in 1..NetLines : WF_vars(i \in TaskIds /\ Respond(i))

SpecLive == InitLive /\ [][NextLive]_vars /\ FairLive

-----------------------------------------------------------------------------
(* Properties                                                                 *)

Spawned == { i \in TaskIds : tasks[i].st \in {"send", "done", "panicked"} }

\* C1: at any moment at most PARALLEL_REQUESTS tasks have been spawned and have
\* not yet had their result handed to the fold closure.
C1_InFlightBounded == Cardinality(Spawned) <= PARALLEL_REQUESTS

\* The bound is met while a URL is still waiting and a task has already finished.
C1_Witness ==
    /\ Cardinality(Spawned) = PARALLEL_REQUESTS
    /\ next <= Len(urls)
    /\ \E i \in Spawned : tasks[i].st = "done"
    /\ \E i \in Spawned : tasks[i].st = "panicked"

Normal(k) == tasks[k].st = "taken"
Abnormal(k) == tasks[k].st = "join_error"

\* C2 as stated: after the run every raw URL is itself a member of exactly one of
\* the two sets, and of neither exactly when its task ended abnormally.
C2_EveryRawUrlInExactlyOneSet ==
    mainpc = "done" =>
        \A k \in 1..Len(urls) :
            /\ ~(urls[k] \in valid_urls /\ urls[k] \in invalid_urls)
            /\ (urls[k] \notin valid_urls \cup invalid_urls) <=> Abnormal(k)

\* C2 amended: after the run every task has been joined; a task that returned has
\* put exactly its result's url into the set its flag names (the resolved address
\* into valid_urls, the raw URL into invalid_urls), a task that ended abnormally
\* has put nothing anywhere, and the sets hold nothing else.
C2_EveryResultInItsSet ==
    mainpc = "done" =>
        /\ Len(tasks) = Len(urls)
        /\ \A k \in TaskIds : tasks[k].url = urls[k] /\ (Normal(k) \/ Abnormal(k))
        /\ valid_urls = { tasks[k].res.url : k \in { j \in TaskIds : Normal(j) /\ tasks[j].res.is_valid } }
        /\ invalid_urls = { urls[k] : k \in { j \in TaskIds : Normal(j) /\ ~tasks[j].res.is_valid } }

\* A finished run with one task lost, and one URL valid under another address.
C2_Witness ==
    /\ mainpc = "done"
    /\ \E k \in TaskIds : Abnormal(k)
    /\ \E k \in TaskIds : Normal(k) /\ tasks[k].res.is_valid /\ tasks[k].res.url # urls[k]

\* C3: no string is in both result sets.
C3_Disjoint == valid_urls \cap invalid_urls = {}

Running(i) == tasks[i].st \in {"send", "done"}

\* The address a finished request resolved to: the last redirect target it was
\* given, or the candidate itself when it was given none.
Resolved(t) ==
    IF t.hops = <<>> THEN t.log[Len(t.log)] ELSE t.hops[Len(t.hops)]

\* C4: the probes of one check_url are the variations in list order, each begun
\* only after all earlier ones failed, none after one that resolved; a check that
\* resolved returns is_valid = true with the address that last probe resolved to.
C4_SequentialFirstSuccess ==
    \A i \in TaskIds :
        Running(i) =>
            LET t == tasks[i]
                vs == build_url_variations(t.url)
            IN  /\ Len(t.log) \in 1..Len(vs)
                /\ \A k \in 1..Len(t.log) : t.log[k] = vs[k]
                /\ Len(t.outs) = IF t.st = "send" THEN Len(t.log) - 1 ELSE Len(t.log)
                /\ \A k \in 1..(Len(t.log) - 1) : t.outs[k] = "err"
                /\ (t.st = "done" /\ t.outs[Len(t.outs)] = "ok") =>
                       t.res = [is_valid |-> TRUE, url |-> Resolved(t)]
                /\ (t.st = "done" /\ t.res.is_valid) => t.outs[Len(t.outs)] = "ok"

\* The third variation is the first to resolve, after a redirect.
C4_Witness ==
    \E i \in TaskIds :
        /\ tasks[i].st = "done"
        /\ tasks[i].outs = <<"err", "err", "ok">>
        /\ tasks[i].hops # <<>>
        /\ tasks[i].res.is_valid

\* C5: check_url returns is_valid = false exactly when every variation was probed
\* once and every probe failed, and then the url returned is the raw URL.
C5_InvalidIffAllFailed ==
    \A i \in TaskIds :
        tasks[i].st = "done" =>
            LET t == tasks[i]
                vs == build_url_variations(t.url)
                all_failed_once ==
                    /\ t.log = vs
                    /\ \A j, k \in 1..Len(t.log) : j # k => t.log[j] # t.log[k]
                    /\ Len(t.outs) = Len(vs)
                    /\ \A k \in 1..Len(t.outs) : t.outs[k] = "err"
            IN  /\ ~t.res.is_valid <=> all_failed_once
                /\ ~t.res.is_valid => t.res.url = t.url

\* A raw URL with five variations, all failed.
C5_Witness ==
    \E i \in TaskIds :
        /\ tasks[i].st = "done"
        /\ ~tasks[i].res.is_valid
        /\ Len(tasks[i].log) = 5
        /\ tasks[i].res.url = tasks[i].url

\* C6: hit_url returns the last redirect target when the request followed
\* redirects, and the candidate itself when it followed none; while the request is
\* under way final_url holds that same address.
C6_LastRedirectWins ==
    \A i \in TaskIds :
        LET t == tasks[i]
        IN  /\ (t.st = "send" /\ t.cb = <<>>) => t.final_url = Resolved(t)
            /\ (t.st = "done" /\ t.res.is_valid) => t.res.url = Resolved(t)

\* Two redirects to different targets: the second is returned.
C6_Witness ==
    \E i \in TaskIds :
        /\ tasks[i].st = "done"
        /\ Len(tasks[i].hops) = 2
        /\ tasks[i].hops[1] # tasks[i].hops[2]
        /\ tasks[i].res = [is_valid |-> TRUE, url |-> tasks[i].hops[2]]

\* C7: build_url_variations(u) is https://s, https://www.s, http://s, http://www.s
\* for s = sanitize_url(u), then u itself exactly when u is none of the four.
C7_VariationsExact ==
    fpc = "built" =>
        /\ Len(variations) \in {4, 5}
        /\ variations[1] = SchemeHttps \o out
        /\ variations[2] = SchemeHttps \o Www \o out
        /\ variations[3] = SchemeHttp \o out
        /\ variations[4] = SchemeHttp \o Www \o out
        /\ Len(variations) = 5 <=> \A k \in 1..4 : variations[k] # arg
        /\ Len(variations) = 5 => variations[5] = arg

\* The raw URL is the second of the four, so no fifth entry.
C7_Witness ==
    /\ fpc = "built"
    /\ Len(variations) = 4
    /\ variations[2] = arg

\* C8: sanitizing a sanitized string changes nothing.
C8_Idempotent == fpc \in {"resanitized", "built"} => out2 = out

IsSubAt(s, k) == k + Len(Www) - 1 <= Len(s) /\ SubSeq(s, k, k + Len(Www) - 1) = Www

SchemeLen(s) ==
    IF IsPrefix(SchemeHttp, s) THEN 7 ELSE IF IsPrefix(SchemeHttps, s) THEN 8 ELSE 0

TrimmedEntries == { trim(contents[k]) : k \in 1..Len(contents) } \ { <<>> }

\* C10: the tasks dispatched are one for each distinct non-blank line (lines
\* compared as trimmed), never two for the same value and none for a blank line;
\* when the run is over every such line has had its task.
C10_OneUnitPerEntry ==
    /\ \A j, k \in TaskIds : j # k => tasks[j].url # tasks[k].url
    /\ \A k \in TaskIds : tasks[k].url \in TrimmedEntries
    /\ mainpc = "done" => { tasks[k].url : k \in TaskIds } = TrimmedEntries

\* Three lines, one value twice (once padded) and a whitespace-only line: one task.
C10_Witness ==
    /\ mainpc = "done"
    /\ Len(contents) = 3
    /\ Len(tasks) = 1
    /\ \E k \in 1..3 : contents[k] # <<>> /\ trim(contents[k]) = <<>>
    /\ \E j, k \in 1..3 : j # k /\ contents[j] # contents[k]
                         /\ trim(contents[j]) = tasks[1].url
                         /\ trim(contents[k]) = tasks[1].url

\* C11: the fold step that takes the Err(JoinError) of a task changes neither set
\* and leaves main running; when fold has returned, every URL of the list has had
\* its task, every task has been joined, and every task that returned has its
\* result in the set its flag names.
C11_AbnormalSkippedBatchGoesOn ==
    /\ [](mainpc = "report" =>
            /\ Len(tasks) = Len(urls)
            /\ \A k \in TaskIds : tasks[k].url = urls[k] /\ (Normal(k) \/ Abnormal(k))
            /\ \A k \in TaskIds :
                   Normal(k) => tasks[k].res.url \in
                                    (IF tasks[k].res.is_valid THEN valid_urls
                                     ELSE invalid_urls))
    /\ [][\A i \in TaskIds :
              (tasks[i].st = "panicked" /\ tasks'[i].st = "join_error") =>
                  /\ valid_urls' = valid_urls
                  /\ invalid_urls' = invalid_urls
                  /\ mainpc' = "run"]_vars

\* The first task panicked while the last URL was still queued; fold has returned
\* with the results of all the others.
C11_Witness ==
    /\ mainpc = "report"
    /\ Len(tasks) > PARALLEL_REQUESTS
    /\ Abnormal(1)
    /\ \A k \in 2..Len(tasks) : Normal(k)
    /\ Cardinality(valid_urls \cup invalid_urls) = Len(tasks) - 1
    /\ urls[1] \notin valid_urls \cup invalid_urls

\* The outcomes of the tasks, whatever the order they were joined in.
ValidOutcomes ==
    { tasks[k].res.url : k \in { j \in TaskIds : Normal(j) /\ tasks[j].res.is_valid } }

InvalidOutcomes ==
    { tasks[k].res.url : k \in { j \in TaskIds : Normal(j) /\ ~tasks[j].res.is_valid } }

\* The one arrangement of a set of strings in increasing order.
Ascending(set) ==
    CHOOSE seq \in iter(set) : \A k \in 1..(Len(seq) - 1) : lt(seq[k], seq[k + 1])

\* The text of the report for two sets.
ReportOf(valid, invalid) ==
    ValidHeader \o join(Ascending(valid), Newline)
                \o InvalidHeader \o join(Ascending(invalid), Newline)

\* C12: once fold has returned, the two sets are determined by the tasks' outcomes
\* alone, and the text written to output.txt and the text printed are determined
\* by the two sets alone: neither the order in which the tasks finished and were
\* joined nor the order in which the HashSets yield their items shows in them.
C12_OrderIndependent ==
    /\ mainpc \in {"report", "print", "done"} =>
           valid_urls = ValidOutcomes /\ invalid_urls = InvalidOutcomes
    /\ mainpc \in {"print", "done"} =>
           output_file = ReportOf(ValidOutcomes, InvalidOutcomes)
    /\ mainpc = "done" =>
           stdout = ReportOf(ValidOutcomes, InvalidOutcomes) \o Newline

\* Two tasks, both valid, the second under the smaller address; the report is out.
C12_Witness ==
    /\ mainpc = "done"
    /\ Len(tasks) = 2
    /\ Normal(1) /\ Normal(2)
    /\ tasks[1].res.is_valid /\ tasks[2].res.is_valid
    /\ tasks[1].res.url # tasks[2].res.url
    /\ lt(tasks[2].res.url, tasks[1].res.url)
    /\ output_file # <<>>

\* The lines of a text: the pieces between its newlines.
RECURSIVE LinesOf(_, _)
LinesOf(text, line) ==
    IF text = <<>> THEN <<line>>
    ELSE IF Head(text) = "\n" THEN <<line>> \o LinesOf(Tail(text), <<>>)
    ELSE LinesOf(Tail(text), Append(line, Head(text)))

ValidTitle == SubSeq(ValidHeader, 1, Len(ValidHeader) - 1)
InvalidTitle == SubSeq(InvalidHeader, 3, Len(InvalidHeader) - 1)

\* Where the second section of a report starts: the first title line after an
\* empty line.
InvalidTitleAt(lines) ==
    CHOOSE h \in 3..Len(lines) :
        /\ lines[h] = InvalidTitle /\ lines[h - 1] = <<>>
        /\ \A g \in 3..(h - 1) : ~(lines[g] = InvalidTitle /\ lines[g - 1] = <<>>)

ValidSection(text) ==
    LET lines == LinesOf(text, <<>>)
    IN  SubSeq(lines, 2, InvalidTitleAt(lines) - 2)

InvalidSection(text) ==
    LET lines == LinesOf(text, <<>>)
    IN  SubSeq(lines, InvalidTitleAt(lines) + 1, Len(lines))

Increasing(lines) == \A k \in 1..(Len(lines) - 1) : lt(lines[k], lines[k + 1])

\* C13: in the text written to output.txt the first line is the title of the
\* valid section, and the lines of the valid section and those of the invalid
\* section are each in strictly increasing byte order; each section lists exactly
\* the strings of its set.
C13_SectionsStrictlyIncreasing ==
    mainpc \in {"print", "done"} =>
        /\ LinesOf(output_file, <<>>)[1] = ValidTitle
        /\ Increasing(ValidSection(output_file))
        /\ Increasing(InvalidSection(output_file))
        /\ Range(ValidSection(output_file)) \ { <<>> } = valid_urls
        /\ Range(InvalidSection(output_file)) \ { <<>> } = invalid_urls

\* A report with two lines in its valid section.
C13_Witness ==
    /\ mainpc = "done"
    /\ Len(ValidSection(output_file)) = 2
    /\ Len(InvalidSection(output_file)) = 1
    /\ Cardinality(valid_urls) = 2

FreeSlot ==
    /\ mainpc = "run"
    /\ next <= Len(urls)
    /\ Cardinality(in_progress) < PARALLEL_REQUESTS

\* C14: whenever a URL is still queued and fewer than PARALLEL_REQUESTS tasks are
\* in the queue, the next URL can be spawned at once, whatever the state of the
\* tasks under way, and main does nothing else before it has spawned it: in
\* particular it takes no further result.
C14_RollingAdmission ==
    /\ [](FreeSlot => ENABLED Dispatch)
    /\ [][FreeSlot =>
             \/ in_progress' = in_progress /\ next' = next /\ mainpc' = mainpc
             \/ /\ in_progress' = in_progress \cup {next}
                /\ next' = next + 1
                /\ tasks' = Append(tasks, NewTask(urls[next]))]_vars

\* The task after the first PARALLEL_REQUESTS has been spawned when only one of
\* them had finished: the others are still waiting for their responses.
C14_Witness ==
    /\ Len(tasks) = PARALLEL_REQUESTS + 1
    /\ tasks[Len(tasks)].st = "send"
    /\ Cardinality({ i \in 1..PARALLEL_REQUESTS : tasks[i].st = "send" })
           = PARALLEL_REQUESTS - 1

\* C15: a task leaves the queue only by being joined, after it has returned or
\* panicked; every task spawned is joined in the end, with its result or with
\* its JoinError; and main reaches its end, the report written and printed.
C15_EveryUnitJoinedRunEnds ==
    /\ [][\A i \in in_progress :
              i \notin in_progress' =>
                  /\ tasks[i].st \in {"done", "panicked"}
                  /\ tasks'[i].st \in {"taken", "join_error"}]_vars
    /\ \A i \in 1..NetLines :
           (i \in TaskIds) ~> (i \in TaskIds /\ (Normal(i) \/ Abnormal(i)))
    /\ <>(mainpc = "done" /\ in_progress = {} /\ Len(tasks) = Len(urls)
                          /\ output_file # <<>> /\ stdout # <<>>)

\* The run is over with every fault spent; one task panicked, another returned.
C15_Witness ==
    /\ mainpc = "done"
    /\ Len(tasks) = NetLines
    /\ env.faults = 0
    /\ \E k \in TaskIds : Abnormal(k)
    /\ \E k \in TaskIds : Normal(k)

\* C16: when main has returned Ok, standard output has received the very bytes
\* that output.txt holds.
C16_SinksByteIdentical == mainpc = "done" => stdout = output_file

\* A step of the fold closure: one finished task leaves the queue.
AggregationStep ==
    \E i \in in_progress :
        /\ tasks[i].st \in {"done", "panicked"}
        /\ in_progress' = in_progress \ {i}

\* A step of a task: its request fails, is redirected or answered, or it panics.
UnitStep == \E i \in TaskIds : tasks[i].st = "send" /\ tasks'[i] # tasks[i]

\* C17: a step that changes valid_urls or invalid_urls is a step of the fold
\* closure; a step of a task changes neither; and a step of the fold closure
\* takes nothing out of the sets and puts at most one string into one of them,
\* leaving the other as it was.
C17_OnlyAggregationWrites ==
    [][/\ (valid_urls' # valid_urls \/ invalid_urls' # invalid_urls) => AggregationStep
       /\ UnitStep => (valid_urls' = valid_urls /\ invalid_urls' = invalid_urls)
       /\ AggregationStep =>
              /\ valid_urls \subseteq valid_urls'
              /\ invalid_urls \subseteq invalid_urls'
              /\ Cardinality(valid_urls' \ valid_urls) <= 1
              /\ Cardinality(invalid_urls' \ invalid_urls) <= 1
              /\ valid_urls' = valid_urls \/ invalid_urls' = invalid_urls]_vars

\* One result is in valid_urls, one in invalid_urls.
C17_Witness ==
    /\ Cardinality(valid_urls) = 1
    /\ Cardinality(invalid_urls) = 1
    /\ \A i \in TaskIds : Normal(i)
    /\ in_progress = {}

\* C18: a step in which the redirect closure of one task runs (its hops, its
\* pending target or its lock count change) leaves every other task as it was,
\* final_url and result included; and the address a task returns as valid is its
\* own candidate or one of its own redirect targets.
C18_RedirectStatePrivate ==
    /\ [][\A i \in TaskIds :
              (\/ tasks'[i].hops # tasks[i].hops
               \/ tasks'[i].cb # tasks[i].cb
               \/ tasks'[i].acq # tasks[i].acq) =>
                  \A j \in TaskIds \ {i} : tasks'[j] = tasks[j]]_vars
    /\ [](\A i \in TaskIds :
              (tasks[i].st = "done" /\ tasks[i].res.is_valid) =>
                  tasks[i].res.url \in
                      {tasks[i].log[Len(tasks[i].log)]} \cup Range(tasks[i].hops))

\* Two requests under way at once, each redirected, to different targets.
C18_Witness ==
    /\ Len(tasks) = 2
    /\ \A i \in TaskIds :
           tasks[i].st = "send" /\ tasks[i].hops # <<>> /\ tasks[i].cb = <<>>
    /\ tasks[1].final_url # tasks[2].final_url

\* C19: for the raw URL of every task, build_url_variations gives 4 or 5
\* entries, no two equal, one of them the raw URL itself; the task never probes
\* more than 5 addresses nor the same address twice, and when it returns
\* is_valid = false the raw URL itself is among the addresses it probed.
C19_VariationsDistinctWithRaw ==
    \A i \in TaskIds :
        Running(i) =>
            LET t == tasks[i]
                vs == build_url_variations(t.url)
            IN  /\ Len(vs) \in {4, 5}
                /\ \A j, k \in 1..Len(vs) : j # k => vs[j] # vs[k]
                /\ Contains(vs, t.url)
                /\ Len(t.log) <= 5
                /\ \A j, k \in 1..Len(t.log) : j # k => t.log[j] # t.log[k]
                /\ (t.st = "done" /\ ~t.res.is_valid) => Contains(t.log, t.url)

\* A raw URL that is the last of its four variations, found invalid after four
\* probes.
C19_Witness ==
    \E i \in TaskIds :
        /\ tasks[i].st = "done"
        /\ ~tasks[i].res.is_valid
        /\ Len(tasks[i].log) = 4
        /\ tasks[i].log[4] = tasks[i].url

\* C20: no lock() on a task's final_url is made while the task holds a guard
\* of it, so none fails to return, and no guard outlives its statement. The
\* redirect closure locks twice for each redirect (once in the println!, once
\* for the store), and hit_url locks once more after send() has returned Ok.
C20_NoSelfDeadlock ==
    \A i \in TaskIds :
        LET t == tasks[i]
        IN  /\ t.st # "deadlock"
            /\ ~t.held
            /\ t.st = "send" =>
                   t.acq = 2 * Len(t.hops) - (IF t.cb # <<>> THEN 1 ELSE 0)
            /\ t.st = "done" =>
                   t.acq = 2 * Len(t.hops) + (IF t.res.is_valid THEN 1 ELSE 0)

\* A request answered after two redirects: five acquisitions, all returned.
C20_Witness ==
    \E i \in TaskIds :
        /\ tasks[i].st = "done"
        /\ tasks[i].res.is_valid
        /\ Len(tasks[i].hops) = 2
        /\ tasks[i].acq = 5
        /\ ~tasks[i].held

====
